---- MODULE Spec2Model ----
(***************************************************************************)
(* Model of pythonAssessment.py: the five text-analysis functions          *)
(* (count_specific_word, identify_most_common_word,                        *)
(* calculate_average_word_length, count_paragraphs, count_sentences) and   *)
(* the file-selection part of main.                                        *)
(*                                                                         *)
(* A Python str is a sequence of one-character strings.  A Python value    *)
(* is a tagged record, so that None, a str, an int and a raised exception  *)
(* can be told apart.  The regular expressions are modelled by what        *)
(* Python's re engine does with them: a left-to-right scan, greedy         *)
(* repetition with backtracking, \b as a change of word-character class.   *)
(***************************************************************************)
EXTENDS Integers, Sequences, FiniteSets, TLC

VARIABLES
    phase,          \* which call has been made on the inputs
    text,           \* the text argument
    search_word,    \* the search_word argument of count_specific_word
    result,         \* the value the call returned
    words,          \* the local list `words` of the two tokenizing functions
    text2,          \* a second text, equal to text up to letter case
    search_word2,   \* a second search word, equal to search_word up to case
    result2,        \* the value the second call returned
    pc,             \* main: the statement the program is at
    attempts,       \* get_valid_filename: the local counter `attempts`
    filename,       \* main: the local `filename`
    article_text,   \* main: the local `article_text`
    opened,         \* what the last open() of a file did: "ok" or the exception
    file_content,   \* what file.read() returned in read_article_from_file
    displayed,      \* the text passed to display_analysis_results
    reported,       \* the number of messages about a failure printed in this iteration
    failures,       \* the number of open/read failures met in this iteration
    prompts,        \* the number of filename prompts made in this iteration
    iterations      \* the number of completed iterations of main's loop

pureVars == <<phase, text, search_word, result, words, text2, search_word2, result2>>
mainVars == <<pc, attempts, filename, article_text, opened, file_content,
              displayed, reported, failures, prompts, iterations>>
vars == <<phase, text, search_word, result, words, text2, search_word2, result2,
          pc, attempts, filename, article_text, opened, file_content,
          displayed, reported, failures, prompts, iterations>>

---------------------------------------------------------------------------
(* Python values *)

None == [tag |-> "None"]
Str(s) == [tag |-> "str", s |-> s]
IntV(n) == [tag |-> "int", n |-> n]
FloatV(num, den) == [tag |-> "float", num |-> num, den |-> den]
Raised == [tag |-> "raise"]

\* Python truth of a str-or-None value: `not x` is true of None and of "".
Truthy(v) == v.tag = "str" /\ Len(v.s) > 0

---------------------------------------------------------------------------
(* Characters *)

UpperSeq == <<"A","B","C","D","E","F","G","H","I","J","K","L","M",
              "N","O","P","Q","R","S","T","U","V","W","X","Y","Z">>
LowerSeq == <<"a","b","c","d","e","f","g","h","i","j","k","l","m",
              "n","o","p","q","r","s","t","u","v","w","x","y","z">>
UpperLetters == {UpperSeq[i] : i \in 1..26}
LowerLetters == {LowerSeq[i] : i \in 1..26}
Digits == {"0","1","2","3","4","5","6","7","8","9"}

\* [a-zA-Z]
IsAsciiLetter(c) == c \in UpperLetters \/ c \in LowerLetters

\* \w of a str pattern, on ASCII text: letters, digits and the underscore.
IsWordChar(c) == IsAsciiLetter(c) \/ c \in Digits \/ c = "_"

\* \s, and what str.strip() strips, on ASCII text.
IsSpace(c) == c \in {" ", "\t", "\n", "\r", "\f"}

\* str.lower() of one ASCII character.
LowerChar(c) ==
    IF c \in UpperLetters
    THEN LowerSeq[CHOOSE i \in 1..26 : UpperSeq[i] = c]
    ELSE c

\* str.lower()
Lower(s) == [i \in 1..Len(s) |-> LowerChar(s[i])]

\* The strings over alphabet A of length at most n.
StringsUpTo(A, n) == UNION {[1..k -> A] : k \in 0..n}

\* s[i:j] of Python (0-based, j exclusive), for 0 <= i <= j <= len(s).
Slice(s, i, j) == [k \in 1..(j - i) |-> s[i + k]]

\* bool(s.strip()): the string has a character that is not whitespace.
NonBlank(s) == \E i \in 1..Len(s) : ~IsSpace(s[i])

\* str.strip()
Strip(s) ==
    IF ~NonBlank(s) THEN <<>>
    ELSE LET nb == {i \in 1..Len(s) : ~IsSpace(s[i])}
             lo == CHOOSE i \in nb : \A j \in nb : i <= j
             hi == CHOOSE i \in nb : \A j \in nb : i >= j
         IN  Slice(s, lo - 1, hi)

---------------------------------------------------------------------------
(* count_specific_word *)

\* \b at offset i (0..len(s)) of s: the characters on the two sides differ in
\* being word characters, a string edge counting as a non-word character.
WordBoundaryAt(s, i) ==
    LET before == i > 0 /\ IsWordChar(s[i])
        after  == i < Len(s) /\ IsWordChar(s[i + 1])
    IN  before # after

\* re.escape(w) matched at offset i: the characters of w, literally.
LiteralAt(s, w, i) ==
    /\ i + Len(w) <= Len(s)
    /\ \A k \in 1..Len(w) : s[i + k] = w[k]

\* A mutant of WordPatternAt: the pattern without its two \b.
WordPatternNoBoundary(s, w, i) == LiteralAt(s, w, i)

\* r'\b' + re.escape(w) + r'\b' matches at offset i.
WordPatternAt(s, w, i) ==
    /\ WordBoundaryAt(s, i)
    /\ LiteralAt(s, w, i)
    /\ WordBoundaryAt(s, i + Len(w))

\* len(re.findall(pattern, s)) from offset pos on: the scan takes the leftmost
\* match, then goes on after it (one further on after an empty match).
RECURSIVE FindallCount(_, _, _)
FindallCount(s, w, pos) ==
    IF pos > Len(s) THEN 0
    ELSE IF WordPatternAt(s, w, pos)
         THEN 1 + FindallCount(s, w, IF Len(w) = 0 THEN pos + 1 ELSE pos + Len(w))
         ELSE FindallCount(s, w, pos + 1)

\* A mutant of count_specific_word: the guard of line 24 is gone, so None
\* reaches .lower() and an empty word reaches the pattern.
count_specific_word_unguarded(t, w) ==
    IF t.tag = "None" \/ w.tag = "None" THEN Raised
    ELSE IntV(FindallCount(Lower(t.s), Lower(w.s), 0))

\* A mutant of count_specific_word: line 29 is gone, the search word keeps its
\* case.
count_specific_word_raw_word(t, w) ==
    IF ~Truthy(t) \/ ~Truthy(w) THEN IntV(0)
    ELSE IntV(FindallCount(Lower(t.s), w.s, 0))

count_specific_word(t, w) ==
    IF ~Truthy(t) \/ ~Truthy(w) THEN IntV(0)
    ELSE LET text_lower == Lower(t.s)
             search_word_lower == Lower(w.s)
         IN  IntV(FindallCount(text_lower, search_word_lower, 0))

---------------------------------------------------------------------------
(* Inputs of the count_specific_word checks *)

MaxCountTextLen == 4
MaxCountWordLen == 2
CountChars == {"a", "A", "b", "1", " "}

ExampleCountInputs ==
    { <<Str(<<"a","r","t","i","f","i","c","i","a","l">>), Str(<<"a","r","t">>)>>,
      <<Str(<<"A","r","t"," ","a","r","t","."," ","a","r","t","1">>), Str(<<"a","r","t">>)>>,
      <<Str(<<"a"," ","a"," ","a">>), Str(<<"a"," ","a">>)>> }

CountInputs ==
    ({Str(s) : s \in StringsUpTo(CountChars, MaxCountTextLen)} \cup {None})
        \X ({Str(s) : s \in StringsUpTo(CountChars, MaxCountWordLen)} \cup {None})

\* main is not running.
MainIdle ==
    /\ pc = "idle" /\ attempts = 0 /\ filename = None /\ article_text = None
    /\ opened = "none" /\ file_content = None /\ displayed = None
    /\ reported = 0 /\ failures = 0 /\ prompts = 0 /\ iterations = 0

InitCount ==
    /\ \E in \in CountInputs \cup ExampleCountInputs :
          text = in[1] /\ search_word = in[2]
    /\ phase = "input" /\ result = None /\ words = <<>>
    /\ text2 = None /\ search_word2 = None /\ result2 = None
    /\ MainIdle

CallCountSpecificWord ==
    /\ phase = "input"
    /\ result' = count_specific_word(text, search_word)
    /\ phase' = "count_specific_word"
    /\ UNCHANGED <<text, search_word, words, text2, search_word2, result2>>
    /\ UNCHANGED mainVars

NextCount == CallCountSpecificWord

SpecCount == InitCount /\ [][NextCount]_vars

---------------------------------------------------------------------------
(* A second call of count_specific_word on inputs of another letter case *)

MaxCaseTextLen == 4
MaxCaseWordLen == 2
CaseChars == {"a", "A", " "}

\* str.upper() of one ASCII character.
UpperChar(c) ==
    IF c \in LowerLetters
    THEN UpperSeq[CHOOSE i \in 1..26 : LowerSeq[i] = c]
    ELSE c

\* The strings that differ from s in letter case only.
CaseVariants(s) ==
    LET letters == {i \in 1..Len(s) : IsAsciiLetter(s[i])}
    IN  {[i \in 1..Len(s) |-> IF i \in U THEN UpperChar(s[i]) ELSE LowerChar(s[i])] :
            U \in SUBSET letters}

ExampleCaseInputs ==
    { <<Str(<<"A","I"," ","a","i"," ","A","i","r">>), Str(<<"A","I">>)>> }

CaseInputs ==
    {Str(s) : s \in StringsUpTo(CaseChars, MaxCaseTextLen)}
        \X {Str(s) : s \in StringsUpTo(CaseChars, MaxCaseWordLen)}

InitCase ==
    /\ \E in \in CaseInputs \cup ExampleCaseInputs :
          text = in[1] /\ search_word = in[2]
    /\ phase = "input" /\ result = None /\ words = <<>>
    /\ text2 = None /\ search_word2 = None /\ result2 = None
    /\ MainIdle

CallCaseVariant ==
    /\ phase = "count_specific_word"
    /\ \E t2 \in CaseVariants(text.s), w2 \in CaseVariants(search_word.s) :
          /\ text2' = Str(t2)
          /\ search_word2' = Str(w2)
          /\ result2' = count_specific_word(Str(t2), Str(w2))
    /\ phase' = "case_variant"
    /\ UNCHANGED <<text, search_word, result, words>>
    /\ UNCHANGED mainVars

NextCase == CallCountSpecificWord \/ CallCaseVariant

SpecCase == InitCase /\ [][NextCase]_vars

---------------------------------------------------------------------------
(* Claims about count_specific_word *)

\* The offsets where w occurs in s with a non-letter or a string edge on each side.
LetterBoundedOccurrences(s, w) ==
    {i \in 0..(Len(s) - Len(w)) :
        /\ LiteralAt(s, w, i)
        /\ (i = 0 \/ ~IsAsciiLetter(s[i]))
        /\ (i + Len(w) = Len(s) \/ ~IsAsciiLetter(s[i + Len(w) + 1]))}

\* The offsets where w occurs in s with a non-word character (neither letter,
\* digit nor underscore) or a string edge on each side.
WordBoundedOccurrences(s, w) ==
    {i \in 0..(Len(s) - Len(w)) :
        /\ LiteralAt(s, w, i)
        /\ (i = 0 \/ ~IsWordChar(s[i]))
        /\ (i + Len(w) = Len(s) \/ ~IsWordChar(s[i + Len(w) + 1]))}

\* The offsets where w occurs in s and, at each end of the occurrence, exactly one
\* of the character inside and the character outside is a word character.
ClassChangeOccurrences(s, w) ==
    {i \in 0..(Len(s) - Len(w)) :
        /\ LiteralAt(s, w, i)
        /\ IsWordChar(w[1]) # (i > 0 /\ IsWordChar(s[i]))
        /\ IsWordChar(w[Len(w)]) #
              (i + Len(w) < Len(s) /\ IsWordChar(s[i + Len(w) + 1]))}

\* The number of occurrences of length n taken from the offsets P left to right,
\* none overlapping one taken before.
RECURSIVE NonOverlapping(_, _, _)
NonOverlapping(P, n, from) ==
    LET rest == {i \in P : i >= from}
    IN  IF rest = {} THEN 0
        ELSE LET first == CHOOSE i \in rest : \A j \in rest : i <= j
             IN  1 + NonOverlapping(P, n, first + n)

OnlyLetters(s) == \A i \in 1..Len(s) : IsAsciiLetter(s[i])

\* C1 as stated: for non-empty text and search word, the result is the number of
\* non-overlapping occurrences of the lowercased word in the lowercased text
\* that have a non-letter or a string edge on each side.
C1_LetterBounded ==
    (phase = "count_specific_word" /\ Truthy(text) /\ Truthy(search_word)) =>
        result = IntV(NonOverlapping(
                    LetterBoundedOccurrences(Lower(text.s), Lower(search_word.s)),
                    Len(search_word.s), 0))

\* C1 amended: for non-empty text and search word, the result is the number of
\* occurrences of the lowercased word in the lowercased text, taken left to
\* right without overlap, that have a \b word boundary at each end; for a
\* search word made of letters these are the occurrences with a non-word
\* character (neither letter, digit nor underscore) or a string edge on each
\* side, and none of them overlap.
C1_WordBounded ==
    (phase = "count_specific_word" /\ Truthy(text) /\ Truthy(search_word)) =>
        LET s == Lower(text.s)
            w == Lower(search_word.s)
        IN  /\ result = IntV(NonOverlapping(ClassChangeOccurrences(s, w), Len(w), 0))
            /\ OnlyLetters(w) =>
                  result = IntV(Cardinality(WordBoundedOccurrences(s, w)))

\* C1's case: "art" is counted in "Art art. art1" twice, the occurrence next to
\* the digit not being one.
C1_Witness ==
    /\ phase = "count_specific_word"
    /\ text = Str(<<"A","r","t"," ","a","r","t","."," ","a","r","t","1">>)
    /\ search_word = Str(<<"a","r","t">>)
    /\ result = IntV(2)

\* C7: when the text or the search word is empty or None, the result is 0 and
\* nothing is raised.
C7_FailsClosed ==
    (phase = "count_specific_word" /\ (~Truthy(text) \/ ~Truthy(search_word))) =>
        result = IntV(0)

\* C7's case: an empty search word on a text with word boundaries, and None.
C7_Witness ==
    /\ phase = "count_specific_word"
    /\ \/ text = Str(<<"a", " ", "b">>) /\ search_word = Str(<<>>)
       \/ text = None /\ search_word = Str(<<"a">>)
    /\ result = IntV(0)

\* C8: two calls whose texts differ in letter case only and whose search words
\* differ in letter case only return the same count.
C8_CaseInsensitive ==
    phase = "case_variant" => result2 = result

\* C8's case: "AI" and "ai" counted in the same text "AI ai Air", both 2.
C8_Witness ==
    /\ phase = "case_variant"
    /\ search_word = Str(<<"A","I">>) /\ search_word2 = Str(<<"a","i">>)
    /\ text2 = text
    /\ text = Str(<<"A","I"," ","a","i"," ","A","i","r">>)
    /\ result = IntV(2) /\ result2 = IntV(2)

---------------------------------------------------------------------------
(* identify_most_common_word and calculate_average_word_length *)

\* \b[a-zA-Z]+\b tried at offset pos: the length of the match, 0 when there is
\* none.  The + is greedy and backtracks, so the match is the longest run of
\* letters from pos that ends at a \b.
WordMatchLen(s, pos) ==
    IF ~WordBoundaryAt(s, pos) THEN 0
    ELSE LET ends == {k \in 1..(Len(s) - pos) :
                        /\ \A j \in 1..k : IsAsciiLetter(s[pos + j])
                        /\ WordBoundaryAt(s, pos + k)}
         IN  IF ends = {} THEN 0
             ELSE CHOOSE k \in ends : \A j \in ends : k >= j

\* A mutant of FindallWords: the pattern [a-zA-Z]+ without its two \b, which
\* takes every maximal run of letters.
RECURSIVE FindallLetterRuns(_, _)
FindallLetterRuns(s, pos) ==
    IF pos >= Len(s) THEN <<>>
    ELSE LET runs == {k \in 1..(Len(s) - pos) :
                        \A j \in 1..k : IsAsciiLetter(s[pos + j])}
         IN  IF runs = {} THEN FindallLetterRuns(s, pos + 1)
             ELSE LET k == CHOOSE k \in runs : \A j \in runs : k >= j
                  IN  <<Slice(s, pos, pos + k)>> \o FindallLetterRuns(s, pos + k)

\* re.findall(r'\b[a-zA-Z]+\b', s) from offset pos on.
RECURSIVE FindallWords(_, _)
FindallWords(s, pos) ==
    IF pos >= Len(s) THEN <<>>
    ELSE LET k == WordMatchLen(s, pos)
         IN  IF k > 0
             THEN <<Slice(s, pos, pos + k)>> \o FindallWords(s, pos + k)
             ELSE FindallWords(s, pos + 1)

\* Counter(ws)[w]
CountOf(ws, w) == Cardinality({i \in 1..Len(ws) : ws[i] = w})

\* The keys of Counter(ws) in the dict's insertion order: first occurrences.
CounterKeys(ws) ==
    LET firsts == {i \in 1..Len(ws) : \A j \in 1..(i - 1) : ws[j] # ws[i]}
        nth[n \in 1..Cardinality(firsts)] ==
            CHOOSE i \in firsts : Cardinality({j \in firsts : j < i}) = n - 1
    IN  [n \in 1..Cardinality(firsts) |-> ws[nth[n]]]

\* A mutant of MostCommon1: a later key of equal count replaces the best so far.
RECURSIVE MostCommonLast(_, _, _, _)
MostCommonLast(ws, keys, n, best) ==
    IF n > Len(keys) THEN best
    ELSE MostCommonLast(ws, keys, n + 1,
            IF CountOf(ws, keys[n]) >= CountOf(ws, best) THEN keys[n] ELSE best)

\* Counter(ws).most_common(1)[0][0]: max() over the items in insertion order,
\* keyed by count; max keeps the first of equal items.  keys[1..n-1] are done.
RECURSIVE MostCommon1(_, _, _, _)
MostCommon1(ws, keys, n, best) ==
    IF n > Len(keys) THEN best
    ELSE MostCommon1(ws, keys, n + 1,
            IF CountOf(ws, keys[n]) > CountOf(ws, best) THEN keys[n] ELSE best)

\* The local `words` of identify_most_common_word when it returns.
identify_most_common_word_words(t) ==
    IF ~Truthy(t) \/ ~NonBlank(t.s) THEN <<>>
    ELSE FindallWords(Lower(t.s), 0)

identify_most_common_word(t) ==
    IF ~Truthy(t) \/ ~NonBlank(t.s) THEN None
    ELSE LET ws == FindallWords(Lower(t.s), 0)
         IN  IF ws = <<>> THEN None
             ELSE LET keys == CounterKeys(ws)
                  IN  Str(MostCommon1(ws, keys, 2, keys[1]))

\* sum(len(word) for word in ws)
RECURSIVE TotalLength(_)
TotalLength(ws) ==
    IF ws = <<>> THEN 0 ELSE Len(Head(ws)) + TotalLength(Tail(ws))

\* The local `words` of calculate_average_word_length when it returns.
calculate_average_word_length_words(t) ==
    IF ~Truthy(t) \/ ~NonBlank(t.s) THEN <<>>
    ELSE FindallWords(t.s, 0)

\* The float returned is kept as the two operands of its division; 0.0 is 0/1.
calculate_average_word_length(t) ==
    IF ~Truthy(t) \/ ~NonBlank(t.s) THEN FloatV(0, 1)
    ELSE LET ws == FindallWords(t.s, 0)
         IN  IF ws = <<>> THEN FloatV(0, 1)
             ELSE FloatV(TotalLength(ws), Len(ws))

---------------------------------------------------------------------------
(* Inputs of the checks of the two tokenizing functions *)

MaxWordsTextLen == 6
WordsChars == {"a", "A", "b", "1", " "}

ExampleWordsInputs ==
    { Str(<<"T","h","e"," ","t","h","e"," ","T","H","E"," ","c","a","t">>),
      Str(<<"a"," ","b","b"," ","c","c","c">>),
      Str(<<"a","b","_","c"," ","d","e","."," ","f","9"," ","g","h","i">>) }

WordsInputs ==
    {Str(s) : s \in StringsUpTo(WordsChars, MaxWordsTextLen)} \cup {None}

InitWords ==
    /\ text \in WordsInputs \cup ExampleWordsInputs
    /\ search_word = None
    /\ phase = "input" /\ result = None /\ words = <<>>
    /\ text2 = None /\ search_word2 = None /\ result2 = None
    /\ MainIdle

CallIdentifyMostCommonWord ==
    /\ phase = "input"
    /\ words' = identify_most_common_word_words(text)
    /\ result' = identify_most_common_word(text)
    /\ phase' = "identify_most_common_word"
    /\ UNCHANGED <<text, search_word, text2, search_word2, result2>>
    /\ UNCHANGED mainVars

CallCalculateAverageWordLength ==
    /\ phase = "input"
    /\ words' = calculate_average_word_length_words(text)
    /\ result' = calculate_average_word_length(text)
    /\ phase' = "calculate_average_word_length"
    /\ UNCHANGED <<text, search_word, text2, search_word2, result2>>
    /\ UNCHANGED mainVars

NextWords == CallIdentifyMostCommonWord \/ CallCalculateAverageWordLength

SpecWords == InitWords /\ [][NextWords]_vars

---------------------------------------------------------------------------
(* Claims about the two tokenizing functions *)

\* The index in ws of the first occurrence of w.
FirstIndex(ws, w) == CHOOSE i \in 1..Len(ws) : ws[i] = w /\ \A j \in 1..(i - 1) : ws[j] # w

MaximalLetterRuns(s) ==
    {p \in (1..Len(s)) \X (1..Len(s)) :
        /\ p[1] <= p[2]
        /\ \A i \in p[1]..p[2] : IsAsciiLetter(s[i])
        /\ (p[1] = 1 \/ ~IsAsciiLetter(s[p[1] - 1]))
        /\ (p[2] = Len(s) \/ ~IsAsciiLetter(s[p[2] + 1]))}

\* The maximal runs of ASCII letters of s that have a non-word character
\* (neither letter, digit nor underscore) or a string edge on each side.
WordBoundedRuns(s) ==
    {p \in (1..Len(s)) \X (1..Len(s)) :
        /\ p[1] <= p[2]
        /\ \A i \in p[1]..p[2] : IsAsciiLetter(s[i])
        /\ (p[1] = 1 \/ ~IsWordChar(s[p[1] - 1]))
        /\ (p[2] = Len(s) \/ ~IsWordChar(s[p[2] + 1]))}

RECURSIVE SumOfLengths(_)
SumOfLengths(P) ==
    IF P = {} THEN 0
    ELSE LET p == CHOOSE p \in P : TRUE
         IN  (p[2] - p[1] + 1) + SumOfLengths(P \ {p})

\* The substrings of s at the index pairs P, from left to right.
RECURSIVE InOrder(_, _)
InOrder(s, P) ==
    IF P = {} THEN <<>>
    ELSE LET p == CHOOSE p \in P : \A q \in P : p[1] <= q[1]
         IN  <<Slice(s, p[1] - 1, p[2])>> \o InOrder(s, P \ {p})

HasAsciiLetter(s) == \E i \in 1..Len(s) : IsAsciiLetter(s[i])

\* The float f equals the quotient a / b.
FloatEquals(f, a, b) == f.tag = "float" /\ f.num * b = a * f.den

\* C5 as stated: the result is 0.0 exactly when the text has no ASCII letter;
\* otherwise the tokens are the maximal runs of ASCII letters and the result is
\* the sum of their lengths divided by their number.
C5_MaximalRuns ==
    (phase = "calculate_average_word_length" /\ text.tag = "str") =>
        LET runs == MaximalLetterRuns(text.s)
        IN  /\ FloatEquals(result, 0, 1) <=> ~HasAsciiLetter(text.s)
            /\ HasAsciiLetter(text.s) =>
                  /\ words = InOrder(text.s, runs)
                  /\ FloatEquals(result, SumOfLengths(runs), Cardinality(runs))

\* C5 amended: the tokens are the maximal runs of ASCII letters that have a
\* non-word character (neither letter, digit nor underscore) or a string edge
\* on each side; the result is 0.0 exactly when there is none, and otherwise the
\* sum of their lengths divided by their number.
C5_WordBoundedRuns ==
    phase = "calculate_average_word_length" =>
        LET runs == IF text.tag = "str" THEN WordBoundedRuns(text.s) ELSE {}
        IN  /\ FloatEquals(result, 0, 1) <=> runs = {}
            /\ runs # {} =>
                  /\ words = InOrder(text.s, runs)
                  /\ FloatEquals(result, SumOfLengths(runs), Cardinality(runs))

\* C5's case: "a bb ccc" gives 6/3 = 2.0, and a text whose runs next to an
\* underscore and a digit are no tokens gives (2+3)/2.
C5_Witness ==
    /\ phase = "calculate_average_word_length"
    /\ \/ /\ text = Str(<<"a"," ","b","b"," ","c","c","c">>)
          /\ FloatEquals(result, 2, 1)
       \/ /\ text = Str(<<"a","b","_","c"," ","d","e","."," ","f","9"," ","g","h","i">>)
          /\ FloatEquals(result, 5, 2)

---------------------------------------------------------------------------
(* count_sentences *)

IsTerminator(c) == c \in {".", "!", "?"}

\* (?=\s|$) at offset i: a whitespace character follows, or the text ends here,
\* or only its final newline follows.
SentenceLookahead(s, i) ==
    \/ i < Len(s) /\ IsSpace(s[i + 1])
    \/ i = Len(s)
    \/ i = Len(s) - 1 /\ s[Len(s)] = "\n"

\* A mutant of SentenceMatchLen: the pattern [.!?]+ without its lookahead.
SentenceMatchLenNoLookahead(s, pos) ==
    LET ends == {k \in 1..(Len(s) - pos) : \A j \in 1..k : IsTerminator(s[pos + j])}
    IN  IF ends = {} THEN 0 ELSE CHOOSE k \in ends : \A j \in ends : k >= j

\* [.!?]+(?=\s|$) tried at offset pos: the length of the match, 0 when there is
\* none.  The + is greedy and backtracks to the longest run the lookahead takes.
SentenceMatchLen(s, pos) ==
    LET ends == {k \in 1..(Len(s) - pos) :
                    /\ \A j \in 1..k : IsTerminator(s[pos + j])
                    /\ SentenceLookahead(s, pos + k)}
    IN  IF ends = {} THEN 0 ELSE CHOOSE k \in ends : \A j \in ends : k >= j

\* re.split(sentence_pattern, s) from offset pos on, the piece being built
\* having started at offset start.
RECURSIVE SplitSentences(_, _, _)
SplitSentences(s, pos, start) ==
    IF pos >= Len(s) THEN <<Slice(s, start, Len(s))>>
    ELSE LET k == SentenceMatchLen(s, pos)
         IN  IF k > 0
             THEN <<Slice(s, start, pos)>> \o SplitSentences(s, pos + k, pos + k)
             ELSE SplitSentences(s, pos + 1, start)

\* len([p for p in pieces if p.strip()])
CountNonBlank(pieces) == Cardinality({i \in 1..Len(pieces) : NonBlank(pieces[i])})

Max(a, b) == IF a >= b THEN a ELSE b

\* A mutant of count_sentences: the blank pieces are not filtered out.
count_sentences_unfiltered(t) ==
    IF ~Truthy(t) THEN IntV(1)
    ELSE IntV(Max(1, Len(SplitSentences(t.s, 0, 0))))

count_sentences(t) ==
    IF ~Truthy(t) THEN IntV(1)
    ELSE LET sentences == SplitSentences(t.s, 0, 0)
         IN  IntV(Max(1, CountNonBlank(sentences)))

MaxSentenceTextLen == 6
SentenceChars == {"a", ".", "!", " ", "\n"}

MrSmithArrived ==
    <<"M","r","."," ","S","m","i","t","h"," ","a","r","r","i","v","e","d",".">>
HiBye == <<"H","i","."," ","B","y","e","!">>

ExampleSentenceInputs ==
    { Str(MrSmithArrived), Str(HiBye),
      Str(<<"M","r",".","S","m","i","t","h"," ","h","a","s"," ","3",".","1","4","?","!"," ","N","o",".">>) }

SentenceInputs ==
    {Str(s) : s \in StringsUpTo(SentenceChars, MaxSentenceTextLen)} \cup {None}

InitSentences ==
    /\ text \in SentenceInputs \cup ExampleSentenceInputs
    /\ search_word = None
    /\ phase = "input" /\ result = None /\ words = <<>>
    /\ text2 = None /\ search_word2 = None /\ result2 = None
    /\ MainIdle

CallCountSentences ==
    /\ phase = "input"
    /\ result' = count_sentences(text)
    /\ phase' = "count_sentences"
    /\ UNCHANGED <<text, search_word, words, text2, search_word2, result2>>
    /\ UNCHANGED mainVars

NextSentences == CallCountSentences

SpecSentences == InitSentences /\ [][NextSentences]_vars

---------------------------------------------------------------------------
(* Claims about count_sentences *)

\* C2 as stated: "Mr. Smith arrived." has 1 sentence, "" has 1, "Hi. Bye!" has 2.
C2_MrSmithOneSentence ==
    phase = "count_sentences" =>
        /\ text = Str(MrSmithArrived) => result = IntV(1)
        /\ text = Str(<<>>) => result = IntV(1)
        /\ text = Str(HiBye) => result = IntV(2)

\* C2 amended: "Mr. Smith arrived." has 2 sentences, the period of "Mr." being
\* followed by a space; "" has 1 and "Hi. Bye!" has 2.
C2_MrSmithTwoSentences ==
    phase = "count_sentences" =>
        /\ text = Str(MrSmithArrived) => result = IntV(2)
        /\ text = Str(<<>>) => result = IntV(1)
        /\ text = Str(HiBye) => result = IntV(2)

\* C2's case: count_sentences has been called on "Mr. Smith arrived.".
C2_Witness ==
    phase = "count_sentences" /\ text = Str(MrSmithArrived) /\ result = IntV(2)

\* The positions of s inside a maximal run of terminators that is followed by
\* a whitespace character or by the end of s.
SplitPositions(s) ==
    {i \in 1..Len(s) :
        \E lo \in 1..i, hi \in i..Len(s) :
            /\ \A j \in lo..hi : IsTerminator(s[j])
            /\ (lo = 1 \/ ~IsTerminator(s[lo - 1]))
            /\ (hi = Len(s) \/ IsSpace(s[hi + 1]))
            /\ (hi = Len(s) \/ ~IsTerminator(s[hi + 1]))}

\* The number of non-blank segments s falls into when cut at the positions
\* cut: the positions that hold the first non-whitespace character of a segment.
NonBlankSegments(s, cut) ==
    LET solid == {i \in 1..Len(s) : i \notin cut /\ ~IsSpace(s[i])}
    IN  Cardinality({i \in solid :
            \A j \in solid : j < i => \E c \in cut : j < c /\ c < i})

\* C3: for a non-empty text the result is max(1, number of non-blank segments)
\* of the text split at every maximal run of '.', '!', '?' that is followed by
\* whitespace or the end of the text, and at no other run.
C3_SplitAtFollowedRuns ==
    (phase = "count_sentences" /\ Truthy(text)) =>
        result = IntV(Max(1, NonBlankSegments(text.s, SplitPositions(text.s))))

\* C3's case: a text with terminators inside a word and a number, which are no
\* split points, and two that are.
C3_Witness ==
    /\ phase = "count_sentences"
    /\ text = Str(<<"M","r",".","S","m","i","t","h"," ","h","a","s"," ","3",".","1","4","?","!"," ","N","o",".">>)
    /\ result = IntV(2)

---------------------------------------------------------------------------
(* count_paragraphs *)

\* A mutant of ParagraphMatchLen: the pattern \n\n, with no \s* between.
ParagraphMatchLenNoSpaces(s, pos) ==
    IF pos + 2 <= Len(s) /\ s[pos + 1] = "\n" /\ s[pos + 2] = "\n" THEN 2 ELSE 0

\* \n\s*\n tried at offset pos: the length of the match, 0 when there is none.
\* The \s* is greedy and backtracks to the longest whitespace run that leaves a
\* newline to end the match.
ParagraphMatchLen(s, pos) ==
    IF ~(pos < Len(s) /\ s[pos + 1] = "\n") THEN 0
    ELSE LET ends == {j \in 0..(Len(s) - pos - 2) :
                        /\ \A i \in 1..j : IsSpace(s[pos + 1 + i])
                        /\ s[pos + 2 + j] = "\n"}
         IN  IF ends = {} THEN 0
             ELSE (CHOOSE j \in ends : \A i \in ends : j >= i) + 2

\* re.split(r'\n\s*\n', s) from offset pos on, the piece being built having
\* started at offset start.
RECURSIVE SplitParagraphs(_, _, _)
SplitParagraphs(s, pos, start) ==
    IF pos >= Len(s) THEN <<Slice(s, start, Len(s))>>
    ELSE LET k == ParagraphMatchLen(s, pos)
         IN  IF k > 0
             THEN <<Slice(s, start, pos)>> \o SplitParagraphs(s, pos + k, pos + k)
             ELSE SplitParagraphs(s, pos + 1, start)

count_paragraphs(t) ==
    IF ~Truthy(t) THEN IntV(1)
    ELSE LET paragraphs == SplitParagraphs(Strip(t.s), 0, 0)
         IN  IntV(Max(1, CountNonBlank(paragraphs)))

MaxParagraphTextLen == 7
ParagraphChars == {"a", " ", "\n", "\r"}

ABC == <<"A","\n","\n","B","\n","\n","C">>
AB == <<"A","\n","\n","\n","\n","B">>

ExampleParagraphInputs ==
    { Str(ABC), Str(AB),
      Str(<<" ","\n","A"," ","b","\n"," ","\t","\n","\n","C","\n","d","\n","\n"," ">>) }

ParagraphInputs ==
    {Str(s) : s \in StringsUpTo(ParagraphChars, MaxParagraphTextLen)} \cup {None}

InitParagraphs ==
    /\ text \in ParagraphInputs \cup ExampleParagraphInputs
    /\ search_word = None
    /\ phase = "input" /\ result = None /\ words = <<>>
    /\ text2 = None /\ search_word2 = None /\ result2 = None
    /\ MainIdle

CallCountParagraphs ==
    /\ phase = "input"
    /\ result' = count_paragraphs(text)
    /\ phase' = "count_paragraphs"
    /\ UNCHANGED <<text, search_word, words, text2, search_word2, result2>>
    /\ UNCHANGED mainVars

NextParagraphs == CallCountParagraphs

SpecParagraphs == InitParagraphs /\ [][NextParagraphs]_vars

---------------------------------------------------------------------------
(* Claims about count_paragraphs *)

\* The lines of s, as <<first, last>> index pairs (last = first - 1 for an
\* empty line): the stretches between newlines.
Lines(s) ==
    {p \in (1..(Len(s) + 1)) \X (0..Len(s)) :
        /\ p[2] >= p[1] - 1
        /\ \A i \in p[1]..p[2] : s[i] # "\n"
        /\ (p[1] = 1 \/ s[p[1] - 1] = "\n")
        /\ (p[2] = Len(s) \/ s[p[2] + 1] = "\n")}

BlankLine(s, p) == \A i \in p[1]..p[2] : IsSpace(s[i])

\* The number of blocks of s: the maximal runs of lines that are not blank,
\* counted by their first lines.
Blocks(s) ==
    Cardinality({p \in Lines(s) :
        /\ ~BlankLine(s, p)
        /\ \A q \in Lines(s) : q[2] = p[1] - 2 => BlankLine(s, q)})

\* C6: the result is 1 for the empty text; for any other text it is
\* max(1, number of blocks) of the trimmed text split at every run of one or
\* more blank lines, so it is at least 1, 3 for "A\n\nB\n\nC" and 2 for
\* "A\n\n\n\nB".
C6_BlocksBetweenBlankLines ==
    phase = "count_paragraphs" =>
        /\ result.tag = "int" /\ result.n >= 1
        /\ ~Truthy(text) => result = IntV(1)
        /\ Truthy(text) => result = IntV(Max(1, Blocks(Strip(text.s))))
        /\ text = Str(ABC) => result = IntV(3)
        /\ text = Str(AB) => result = IntV(2)

\* C6's case: a text with leading and trailing blank lines, a run of two blank
\* lines and a single line break, which has 2 paragraphs.
C6_Witness ==
    /\ phase = "count_paragraphs"
    /\ text = Str(<<" ","\n","A"," ","b","\n"," ","\t","\n","\n","C","\n","d","\n","\n"," ">>)
    /\ result = IntV(2)

---------------------------------------------------------------------------
(* main: get_valid_filename, read_article_from_file, the fallback to the    *)
(* sample text, display_analysis_results, the question to go on             *)

max_attempts == 3
MaxIterations == 2

\* The names a user may type, the contents a file may hold, and what open()
\* or file.read() may raise on a missing or unreadable file.
FileNames == {Str(<<"a",".","t","x","t">>), Str(<<"b",".","t","x","t">>)}
FileContents == {Str(<<>>), Str(<<"N","e","w","s",".">>)}
OpenErrors == {"FileNotFoundError", "PermissionError", "UnicodeDecodeError"}

\* The article_text literal of main (its first characters stand for the whole).
SampleText == Str(<<"\n","T","h","e"," ","i","m","p","a","c","t">>)

\* isinstance(exc, cls) for the exceptions above: all are Exceptions, and
\* FileNotFoundError and PermissionError are OSErrors.
IsInstance(exc, cls) ==
    \/ cls = exc
    \/ cls = "Exception"
    \/ cls = "OSError" /\ exc \in {"FileNotFoundError", "PermissionError"}

\* The except clauses of the try in get_valid_filename.
GetValidFilenameHandlers == <<"FileNotFoundError", "Exception">>

\* A mutant of ReadArticleHandlers: only the missing file is handled.
ReadArticleHandlersNotFoundOnly == <<"FileNotFoundError">>

\* The except clauses of the try in read_article_from_file.
ReadArticleHandlers == <<"FileNotFoundError", "Exception">>

Handled(exc, handlers) == \E i \in 1..Len(handlers) : IsInstance(exc, handlers[i])

InitMain ==
    /\ pc = "main" /\ attempts = 0 /\ filename = None /\ article_text = None
    /\ opened = "none" /\ file_content = None /\ displayed = None
    /\ reported = 0 /\ failures = 0 /\ prompts = 0 /\ iterations = 0
    /\ phase = "idle" /\ text = None /\ search_word = None /\ result = None
    /\ words = <<>> /\ text2 = None /\ search_word2 = None /\ result2 = None

\* The loop of main is entered; get_valid_filename starts with attempts = 0.
StartIteration ==
    /\ pc = "main" /\ iterations < MaxIterations
    /\ pc' = "prompt"
    /\ attempts' = 0
    /\ opened' = "none" /\ file_content' = None /\ displayed' = None
    /\ reported' = 0 /\ failures' = 0 /\ prompts' = 0
    /\ UNCHANGED <<filename, article_text, iterations>>
    /\ UNCHANGED pureVars

\* get_valid_filename: the user presses Enter, "" is returned.
PromptSkip ==
    /\ pc = "prompt" /\ attempts < max_attempts
    /\ prompts' = prompts + 1
    /\ filename' = Str(<<>>)
    /\ pc' = "chosen"
    /\ UNCHANGED <<attempts, article_text, opened, file_content, displayed,
                   reported, failures, iterations>>
    /\ UNCHANGED pureVars

\* get_valid_filename: the user names a file, which is opened and read(100).
PromptFile ==
    /\ pc = "prompt" /\ attempts < max_attempts
    /\ prompts' = prompts + 1
    /\ \E name \in FileNames, outcome \in {"ok"} \cup OpenErrors :
          /\ opened' = outcome
          /\ IF outcome = "ok"
             THEN /\ filename' = name
                  /\ pc' = "chosen"
                  /\ UNCHANGED <<attempts, reported, failures>>
             ELSE IF Handled(outcome, GetValidFilenameHandlers)
             THEN /\ attempts' = attempts + 1
                  /\ failures' = failures + 1
                  /\ reported' = reported + 1
                  /\ IF max_attempts - attempts' > 0
                     THEN pc' = "prompt" /\ UNCHANGED filename
                     ELSE pc' = "chosen" /\ filename' = Str(<<>>)
             ELSE /\ pc' = "crashed"
                  /\ failures' = failures + 1
                  /\ UNCHANGED <<attempts, reported, filename>>
    /\ UNCHANGED <<article_text, file_content, displayed, iterations>>
    /\ UNCHANGED pureVars

\* main with a filename: read_article_from_file, then the two conditionals that
\* fall back to the sample text when nothing was read.
ReadArticle ==
    /\ pc = "chosen" /\ Truthy(filename)
    /\ \E outcome \in {"ok"} \cup OpenErrors, content \in FileContents :
          /\ opened' = outcome
          /\ IF outcome = "ok"
             THEN /\ file_content' = content
                  /\ UNCHANGED failures
                  /\ IF ~Truthy(content)
                     THEN /\ reported' = reported + 1
                          /\ filename' = Str(<<>>)
                          /\ article_text' = SampleText
                     ELSE /\ article_text' = content
                          /\ UNCHANGED <<reported, filename>>
                  /\ pc' = "search_word"
             ELSE IF Handled(outcome, ReadArticleHandlers)
             THEN /\ failures' = failures + 1
                  /\ reported' = reported + 2
                  /\ filename' = Str(<<>>)
                  /\ article_text' = SampleText
                  /\ pc' = "search_word"
                  /\ UNCHANGED file_content
             ELSE /\ pc' = "crashed"
                  /\ failures' = failures + 1
                  /\ UNCHANGED <<reported, filename, article_text, file_content>>
    /\ UNCHANGED <<attempts, displayed, prompts, iterations>>
    /\ UNCHANGED pureVars

\* main without a filename: the sample text is used.
UseSampleText ==
    /\ pc = "chosen" /\ ~Truthy(filename)
    /\ article_text' = SampleText
    /\ pc' = "search_word"
    /\ UNCHANGED <<attempts, filename, opened, file_content, displayed,
                   reported, failures, prompts, iterations>>
    /\ UNCHANGED pureVars

\* get_search_word, then display_analysis_results(article_text, search_word).
DisplayAnalysisResults ==
    /\ pc = "search_word"
    /\ displayed' = article_text
    /\ pc' = "displayed"
    /\ UNCHANGED <<attempts, filename, article_text, opened, file_content,
                   reported, failures, prompts, iterations>>
    /\ UNCHANGED pureVars

\* The user answers yes: main's loop goes round.
AnotherYes ==
    /\ pc = "displayed"
    /\ iterations' = iterations + 1
    /\ pc' = "main"
    /\ UNCHANGED <<attempts, filename, article_text, opened, file_content,
                   displayed, reported, failures, prompts>>
    /\ UNCHANGED pureVars

\* The user answers no: main returns.
AnotherNo ==
    /\ pc = "displayed"
    /\ pc' = "done"
    /\ UNCHANGED <<attempts, filename, article_text, opened, file_content,
                   displayed, reported, failures, prompts, iterations>>
    /\ UNCHANGED pureVars

NextMain ==
    \/ StartIteration
    \/ PromptSkip
    \/ PromptFile
    \/ ReadArticle
    \/ UseSampleText
    \/ DisplayAnalysisResults
    \/ AnotherYes
    \/ AnotherNo

SpecMain == InitMain /\ [][NextMain]_vars

---------------------------------------------------------------------------
(* Claim about main *)

====
